---- MODULE Spec2Model ----
(***************************************************************************)
(* Idempotent saga orchestrator of the report service: the saga state      *)
(* store, the event log, the outbox and its publisher, the saga            *)
(* coordinator and the report-creation saga driver.                        *)
(***************************************************************************)
EXTENDS Integers, Sequences, FiniteSets, TLC

(***************************************************************************)
(* Bounds of the exploration.                                              *)
(***************************************************************************)
\* failing step attempts and failing coordinator publishes the environment may inject
MaxFaults == 4
\* failing compensation attempts the environment may inject
MaxCompFaults == 4
\* invocations of Execute / RetryFailedSaga
MaxRuns == 2
\* administrative requests (cancel, force-complete, explicit StartSaga)
MaxAdmin == 1
\* requests to the saga endpoints when no driver runs
MaxRequests == 2
\* driver processes stopped in mid-run
MaxCrashes == 1
\* deliveries of inbound events to HandleSagaEvent
MaxDeliveries == 3
\* rows saved to the outbox
MaxOutbox == 3
\* publisher ticks
MaxTicks == 3
\* steps of a saga handed to SaveSagaState on its own
MaxLen == 2
\* steps of the saga two drivers side by side go through
MaxRaceSteps == 2
\* sagas whose steps touch the reports table side by side
MaxSagas == 3

(***************************************************************************)
(* Program constants.                                                      *)
(***************************************************************************)
maxRetries == 3

Drivers == {"d1", "d2"}

SagaStatusPending == "pending"
SagaStatusExecuting == "executing"
SagaStatusCompleted == "completed"
SagaStatusFailed == "failed"
SagaStatusCompensated == "compensated"

SagaStepPending == "pending"
SagaStepExecuting == "executing"
SagaStepCompleted == "completed"
SagaStepFailed == "failed"
SagaStepCompensated == "compensated"

SagaStarted == "saga.started"
SagaCompleted == "saga.completed"
SagaFailed == "saga.failed"
SagaCompensated == "saga.compensated"
ReportGenerated == "report.generated"

EventTypes == {SagaStarted, SagaCompleted, SagaFailed, SagaCompensated, ReportGenerated}

\* One step as NewIdempotentReportCreationSaga builds it.
NewStep(id, compensate) ==
    [id |-> id, compensate |-> compensate, status |-> SagaStepPending,
     error |-> FALSE, executedAt |-> FALSE, completedAt |-> FALSE]

\* The ordered step list of the report-creation saga.
NewIdempotentReportCreationSaga ==
    << NewStep("validate-user", "none"),
       NewStep("validate-template", "none"),
       NewStep("collect-data", "none"),
       NewStep("generate-report", "delete_report"),
       NewStep("store-file", "delete_file"),
       NewStep("send-notification", "none"),
       NewStep("update-status", "none") >>

StepIds == {NewIdempotentReportCreationSaga[i].id : i \in 1..Len(NewIdempotentReportCreationSaga)}

\* The keys of the Data map NewIdempotentReportCreationSaga gives each step.
StepDataKeys(id) ==
    CASE id = "validate-user" -> {"user_id"}
      [] id = "validate-template" -> {"template_id"}
      [] id = "collect-data" -> {"template_id", "parameters"}
      [] id = "generate-report" -> {"report_id", "template_id", "user_id", "parameters"}
      [] id = "store-file" -> {"report_id", "file_type", "user_id"}
      [] id = "send-notification" -> {"report_id", "user_id", "type"}
      [] id = "update-status" -> {"user_id", "status"}

\* The keys SagaStepHandler.ExecuteStep reads from the step's Data before it
\* touches the Report row; a missing key is an error of the step.
RequiredDataKeys(id) ==
    CASE id = "generate-report" -> {"report_id"}
      [] id = "store-file" -> {"report_id"}
      [] id = "update-status" -> {"report_id", "status"}
      [] OTHER -> {}

\* Whether the step handler returns an error whatever the Report row does.
ExecutorRejects(id) == ~(RequiredDataKeys(id) \subseteq StepDataKeys(id))

\* The in-memory saga objects drivers are invoked on: the full definition, or
\* the id-only object the retry endpoint builds (no steps).
SagaObject(kind) == IF kind = "full" THEN NewIdempotentReportCreationSaga ELSE << >>

SagaKinds == {"full", "temp"}

(***************************************************************************)
(* Saga state store.                                                       *)
(***************************************************************************)
NoRow == [exists |-> FALSE]

\* SaveSagaState: upsert of the whole row built from the in-memory saga; the
\* row it writes carries retry_count 0 and no completed_at.
LastStepID(steps) ==
    LET done == {i \in 1..Len(steps) : steps[i].status = SagaStepCompleted}
    IN IF done = {} THEN "" ELSE steps[CHOOSE i \in done : \A j \in done : j <= i].id

\* json.Marshal of one step: error, executed_at and completed_at carry
\* omitempty and are left out when empty; the other fields are always there.
MarshalStepNoError(step) ==
    LET kept == {"id", "compensate", "status"}
                  \cup (IF step.executedAt THEN {"executedAt"} ELSE {})
                  \cup (IF step.completedAt THEN {"completedAt"} ELSE {})
    IN [f \in kept |-> step[f]]

MarshalStep(step) ==
    LET kept == {"id", "compensate", "status"}
                  \cup (IF step.error THEN {"error"} ELSE {})
                  \cup (IF step.executedAt THEN {"executedAt"} ELSE {})
                  \cup (IF step.completedAt THEN {"completedAt"} ELSE {})
    IN [f \in kept |-> step[f]]

\* json.Unmarshal of one step: a field that is not in the text keeps its zero value.
UnmarshalStep(obj) ==
    [id |-> obj.id, compensate |-> obj.compensate, status |-> obj.status,
     error |-> IF "error" \in DOMAIN obj THEN obj.error ELSE FALSE,
     executedAt |-> IF "executedAt" \in DOMAIN obj THEN obj.executedAt ELSE FALSE,
     completedAt |-> IF "completedAt" \in DOMAIN obj THEN obj.completedAt ELSE FALSE]

\* The steps column: the array of the marshalled steps, in slice order.
MarshalSteps(steps) == [i \in 1..Len(steps) |-> MarshalStep(steps[i])]
UnmarshalSteps(text) == [i \in 1..Len(text) |-> UnmarshalStep(text[i])]

\* The data column: the object's members, one per key of the map.
MarshalData(data) == {<< k, data[k] >> : k \in DOMAIN data}
UnmarshalData(text) ==
    [k \in {m[1] : m \in text} |-> (CHOOSE m \in text : m[1] = k)[2]]

SaveSagaState(saga) ==
    [exists |-> TRUE, id |-> saga.id, name |-> saga.name, status |-> saga.status,
     steps |-> MarshalSteps(saga.steps), data |-> MarshalData(saga.data),
     error |-> saga.error, retryCount |-> 0, completedAt |-> FALSE,
     lastStepID |-> LastStepID(saga.steps)]

\* GetSagaState: the Saga aggregate read back from a row.
GetSagaState(row) ==
    [id |-> row.id, name |-> row.name, status |-> row.status,
     steps |-> UnmarshalSteps(row.steps), data |-> UnmarshalData(row.data),
     error |-> row.error]

\* SagaStateStore.UpdateSagaStatus: column update of an existing row; no row,
\* no change and no error.
StoreUpdateSagaStatus(row, status) ==
    IF ~row.exists THEN row
    ELSE [row EXCEPT !.status = status,
                     !.completedAt = IF status = SagaStatusCompleted THEN TRUE ELSE @]

StoreIncrementRetryCount(row) ==
    IF ~row.exists THEN row ELSE [row EXCEPT !.retryCount = @ + 1]

\* Index of the step with the given id, 0 when absent.
FindStep(steps, stepID) ==
    IF \E i \in 1..Len(steps) : steps[i].id = stepID
    THEN CHOOSE i \in 1..Len(steps) :
            steps[i].id = stepID /\ \A j \in 1..(i - 1) : steps[j].id # stepID
    ELSE 0

(***************************************************************************)
(* Event log.  EventLog.ID is the primary key and LogEvent never sets it,  *)
(* event_id carries a unique index.                                        *)
(***************************************************************************)
NewEventLogRow(sagaID, eventID, eventType) ==
    [id |-> "", sagaID |-> sagaID, eventID |-> eventID, eventType |-> eventType,
     status |-> "processed"]

\* Whether the insert is accepted by the table's keys.
LogEventAccepted(log, row) ==
    \A r \in log : r.id # row.id /\ r.eventID # row.eventID

LogEvent(log, sagaID, eventID, eventType) ==
    LET row == NewEventLogRow(sagaID, eventID, eventType)
    IN IF LogEventAccepted(log, row) THEN log \cup {row} ELSE log

IsEventProcessed(log, eventID) == \E r \in log : r.eventID = eventID

\* What LogEvent returns: the error of db.Create, nil when the row went in.
LogEventResult(log, row) ==
    IF LogEventAccepted(log, row) THEN "ok" ELSE "duplicate_key"

(***************************************************************************)
(* State.                                                                  *)
(***************************************************************************)
VARIABLES
    store,        \* the saga_states row of the saga id under study
    eventLog,     \* rows of the event_logs table
    outbox,       \* rows of the outbox_events table, in insertion order
    bus,          \* per outbox row id: publishes handed to / accepted by the bus
    published,    \* events the coordinator's publisher delivered, per event type
    nextEventId,  \* ids NewEvent has handed out so far
    execCalls,    \* per step id: dispatches to the step executor's ExecuteStep
    compCalls,    \* per step id: dispatches to the step executor's CompensateStep
    doneCalls,    \* per step id: execCalls when the step completed (-1: not completed, or undone since)
    drv,          \* per driver: the goroutine running Execute
    routed,       \* per inbound event id: times HandleSagaEvent routed it
    lastCall,     \* the last coordinator / handler call that returned, and its result
    pub,          \* the outbox publisher loop: the batch in hand and the position in it
    reports,      \* the reports table, and what each saga's step handler did to it
    faults, cfaults, runs, admins, crashes, deliveries, ticks, rows  \* what is left of each budget

vars == << store, eventLog, outbox, bus, published, nextEventId, execCalls, compCalls,
           doneCalls, drv, routed, lastCall, pub, reports, faults, cfaults, runs, admins, crashes, deliveries,
           ticks, rows >>

\* The sagas that run side by side over the reports table, each for a user
\* of its own, and the empty table.
Sagas == 1..MaxSagas
NoReports ==
    [table |-> << >>,
     pos |-> [sg \in Sagas |-> "generate-report"],
     created |-> [sg \in Sagas |-> 0],
     accessed |-> {}]

\* Event ids of events produced by other services and delivered from the bus.
ExternalEventIds == {-1, -2}

IdleDriver ==
    [pc |-> "idle", kind |-> "full", idx |-> 0, cidx |-> 0, attempt |-> 0,
     snap |-> NoRow, result |-> "none", sawStatus |-> "none", failedAt |-> 0,
     compLog |-> << >>, startOk |-> FALSE, afterForce |-> FALSE,
     crashedIn |-> "none", afterCrash |-> FALSE, stepErr |-> "none",
     entry |-> "none", cancelled |-> FALSE]

\* The state after construction: empty tables, no driver running.
InitCounters ==
    /\ eventLog = {}
    /\ outbox = << >>
    /\ bus = << >>
    /\ published = [t \in EventTypes |-> 0]
    /\ nextEventId = 1
    /\ execCalls = [s \in StepIds |-> 0]
    /\ compCalls = [s \in StepIds |-> 0]
    /\ doneCalls = [s \in StepIds |-> -1]
    /\ drv = [d \in Drivers |-> IdleDriver]
    /\ routed = [e \in ExternalEventIds |-> 0]
    /\ pub = [batch |-> << >>, phase |-> "idle"]
    /\ reports = NoReports

InitTables ==
    /\ store = NoRow
    /\ InitCounters

InitState ==
    /\ InitTables
    /\ lastCall = [op |-> "none", result |-> "none"]

\* The service.  Here a step fails only where the step handler rejects it;
\* failing Report-row operations and publishes are explored under SpecDriver,
\* failing compensations under SpecUnwind.
Init ==
    /\ InitState
    /\ faults = 0 /\ cfaults = 0 /\ runs = MaxRuns /\ admins = MaxAdmin /\ crashes = MaxCrashes
    /\ deliveries = 0 /\ ticks = 0 /\ rows = MaxOutbox

SagaID == "saga-1"
SagaName == "Idempotent Report Creation Saga"

\* The Data of the Saga object Execute builds (an empty map), and of the one
\* the create-saga endpoint builds from the request.
ExecuteData == UnmarshalData({})
CreateReportSagaData == UnmarshalData({<< "template_id", "1" >>, << "parameters", "{}" >>})

(***************************************************************************)
(* Coordinator building blocks.                                            *)
(***************************************************************************)
\* NewEvent + stateStore.LogEvent + publisher.Publish, as every coordinator
\* operation ends: the log failure is only warned about, the publish result
\* is the operation's result.
EmitEvent(eventType, pubOk) ==
    /\ eventLog' = LogEvent(eventLog, SagaID, nextEventId, eventType)
    /\ nextEventId' = nextEventId + 1
    /\ published' = IF pubOk THEN [published EXCEPT ![eventType] = @ + 1] ELSE published

\* The same, a failed publish taken from the budget of failing attempts.
Emit(eventType, pubOk) ==
    /\ pubOk \/ faults > 0
    /\ faults' = IF pubOk THEN faults ELSE faults - 1
    /\ EmitEvent(eventType, pubOk)

NoEmit == UNCHANGED << eventLog, nextEventId, published, faults >>

\* StartSaga's decision on the stored row (the status switch).
StartSagaDecisionNoBusy(row) ==
    IF ~row.exists THEN "start"
    ELSE IF row.status = SagaStatusCompleted THEN "noop"
    ELSE "start"

StartSagaDecision(row) ==
    IF ~row.exists THEN "start"
    ELSE IF row.status = SagaStatusCompleted THEN "noop"
    ELSE IF row.status = SagaStatusExecuting THEN "already_running"
    ELSE "start"

\* IdempotentSagaCoordinator.StartSaga on the in-memory saga with these steps,
\* deciding on the row its GetSagaState returned.
StartSagaOn(row, steps, data, pubOk, res) ==
    LET dec == StartSagaDecision(row) IN
    IF dec = "start"
    THEN /\ store' = SaveSagaState([id |-> SagaID, name |-> SagaName,
                                    status |-> SagaStatusExecuting, steps |-> steps,
                                    data |-> data, error |-> FALSE])
         /\ Emit(SagaStarted, pubOk)
         /\ res = IF pubOk THEN "ok" ELSE "publish_error"
    ELSE /\ UNCHANGED store
         /\ NoEmit
         /\ pubOk
         /\ res = IF dec = "noop" THEN "ok" ELSE dec

\* StartSaga with nothing between its read of the row and its save.
StartSaga(steps, data, pubOk, res) == StartSagaOn(store, steps, data, pubOk, res)

\* The event type UpdateSagaStatus publishes for a status.
StatusEventType(status) ==
    IF status = SagaStatusFailed THEN SagaFailed ELSE SagaCompleted

\* IdempotentSagaCoordinator.UpdateSagaStatus.
UpdateSagaStatus(status, pubOk) ==
    /\ store' = StoreUpdateSagaStatus(store, status)
    /\ Emit(StatusEventType(status), pubOk)

\* ExecuteStep's idempotency checks on the loaded step.
ExecuteStepDecisionNoShortCut(step) ==
    IF step.status = SagaStepExecuting THEN "busy" ELSE "run"

ExecuteStepDecision(step) ==
    IF step.status = SagaStepCompleted THEN "noop"
    ELSE IF step.status = SagaStepExecuting THEN "busy"
    ELSE "run"

\* CompensateStep's idempotency checks on the loaded step.
CompensateStepDecisionAnyKind(step) ==
    IF step.status = SagaStepCompensated THEN "noop" ELSE "run"

CompensateStepDecision(step) ==
    IF step.status = SagaStepCompensated THEN "noop"
    ELSE IF step.compensate = "none" THEN "mark"
    ELSE "run"

SetStep(saga, j, step) == [saga EXCEPT !.steps[j] = step]

MarkExecuting(step) == [step EXCEPT !.status = SagaStepExecuting, !.executedAt = TRUE]
MarkCompleted(step) ==
    [step EXCEPT !.status = SagaStepCompleted, !.completedAt = TRUE, !.error = FALSE]
MarkFailed(step) == [step EXCEPT !.status = SagaStepFailed, !.error = TRUE]
MarkCompensated(step) == [step EXCEPT !.status = SagaStepCompensated]

(***************************************************************************)
(* The saga driver: IdempotentReportCreationSaga.Execute and               *)
(* RetryFailedSaga, one action per coordinator call and per attempt.       *)
(***************************************************************************)
Steps(d) == SagaObject(drv[d].kind)

Moved(d, fields) == drv' = [drv EXCEPT ![d] = fields]

Return(d, result) == [drv[d] EXCEPT !.pc = "idle", !.result = result, !.snap = NoRow]

notDriver == << outbox, bus, pub, reports, ticks, rows, routed, deliveries, admins, lastCall >>

\* A request handler spawns Execute on the saga object of the given kind.
Execute(d, kind) ==
    /\ drv[d].pc = "idle"
    /\ runs > 0
    /\ runs' = runs - 1
    /\ Moved(d, [IdleDriver EXCEPT !.pc = "start", !.kind = kind, !.entry = "Execute",
                                   !.afterForce = /\ lastCall.op = "ForceCompleteSaga"
                                                  /\ store.exists
                                                  /\ store.status = SagaStatusCompleted,
                                   !.afterCrash = /\ drv[d].crashedIn = "attempt"
                                                  /\ store.exists
                                                  /\ store.status = SagaStatusExecuting
                                                  /\ \E i \in 1..Len(store.steps) :
                                                        store.steps[i].status = SagaStepExecuting])
    /\ UNCHANGED << store, eventLog, published, nextEventId, execCalls, compCalls,
                    doneCalls, faults, cfaults, crashes >>
    /\ UNCHANGED notDriver

\* RetryFailedSaga: only a Failed saga is re-run; the in-memory steps are
\* reset (none of them is ever Failed in memory) and Execute follows.
RetryFailedSagaDecisionAny(status) == "run"
RetryFailedSagaDecision(status) ==
    IF status # SagaStatusFailed THEN "err_not_failed" ELSE "run"

RetryFailedSaga(d, kind) ==
    /\ drv[d].pc = "idle"
    /\ runs > 0
    /\ runs' = runs - 1
    /\ IF ~store.exists
       THEN Moved(d, [IdleDriver EXCEPT !.result = "err_state", !.kind = kind,
                                       !.entry = "RetryFailedSaga"])
       ELSE IF RetryFailedSagaDecision(GetSagaState(store).status) = "err_not_failed"
       THEN Moved(d, [IdleDriver EXCEPT !.result = "err_not_failed", !.kind = kind,
                                       !.entry = "RetryFailedSaga"])
       ELSE Moved(d, [IdleDriver EXCEPT !.pc = "start", !.kind = kind,
                                       !.entry = "RetryFailedSaga"])
    /\ UNCHANGED << store, eventLog, published, nextEventId, execCalls, compCalls,
                    doneCalls, faults, cfaults, crashes >>
    /\ UNCHANGED notDriver

\* Execute, line 127: coordinator.StartSaga on a saga built from s.Steps.
DriverStartSaga(d) ==
    /\ drv[d].pc = "start"
    /\ \E pubOk \in BOOLEAN, res \in {"ok", "publish_error", "already_running"} :
          /\ StartSaga(Steps(d), ExecuteData, pubOk, res)
          /\ LET saw == IF store.exists THEN store.status ELSE "none" IN
             IF res = "ok"
             THEN Moved(d, [drv[d] EXCEPT !.pc = "loop", !.idx = 1, !.sawStatus = saw,
                                        !.startOk = TRUE])
             ELSE Moved(d, [Return(d, res) EXCEPT !.sawStatus = saw])
    /\ UNCHANGED << execCalls, compCalls, doneCalls, cfaults, runs, crashes >>
    /\ UNCHANGED notDriver

\* StartSaga in two steps, for callers that run side by side: line 301, the
\* read of the stored saga ...
DriverStartSagaRead(d) ==
    /\ drv[d].pc = "start"
    /\ Moved(d, [drv[d] EXCEPT !.pc = "startSave", !.snap = store,
                               !.sawStatus = IF store.exists THEN store.status ELSE "none"])
    /\ UNCHANGED << store, eventLog, published, nextEventId, execCalls, compCalls,
                    doneCalls, faults, cfaults, runs, crashes >>
    /\ UNCHANGED notDriver

\* ... and lines 304-338, the decision on what was read, the save and the event.
DriverStartSagaSave(d) ==
    /\ drv[d].pc = "startSave"
    /\ \E pubOk \in BOOLEAN, res \in {"ok", "publish_error", "already_running"} :
          /\ StartSagaOn(drv[d].snap, Steps(d), ExecuteData, pubOk, res)
          /\ IF res = "ok"
             THEN Moved(d, [drv[d] EXCEPT !.pc = "loop", !.idx = 1, !.snap = NoRow,
                                        !.startOk = TRUE])
             ELSE Moved(d, Return(d, res))
    /\ UNCHANGED << execCalls, compCalls, doneCalls, cfaults, runs, crashes >>
    /\ UNCHANGED notDriver

\* Execute, lines 132-156: reload the saga, find the step, and ExecuteStep up
\* to the save that marks the step Executing.
DriverExecuteStep(d) ==
    /\ drv[d].pc = "loop"
    /\ drv[d].idx <= Len(Steps(d))
    /\ LET stepID == Steps(d)[drv[d].idx].id
           saga == GetSagaState(store)
           j == FindStep(saga.steps, stepID)
       IN IF ~store.exists
          THEN Moved(d, Return(d, "err_state")) /\ UNCHANGED store
          ELSE IF j = 0
          THEN Moved(d, Return(d, "err_step_not_found")) /\ UNCHANGED store
          ELSE LET dec == ExecuteStepDecision(saga.steps[j]) IN
               IF dec = "noop"
               THEN Moved(d, [drv[d] EXCEPT !.idx = @ + 1]) /\ UNCHANGED store
               ELSE IF dec = "busy"
               THEN Moved(d, [drv[d] EXCEPT !.pc = "markFailed",
                                            !.stepErr = "err_step_busy"]) /\ UNCHANGED store
               ELSE LET snap == SetStep(saga, j, MarkExecuting(saga.steps[j])) IN
                    /\ store' = SaveSagaState(snap)
                    /\ Moved(d, [drv[d] EXCEPT !.pc = "attempt", !.attempt = 0,
                                               !.snap = snap])
    /\ UNCHANGED << eventLog, published, nextEventId, execCalls, compCalls, doneCalls,
                    faults, cfaults, runs, crashes >>
    /\ UNCHANGED notDriver

\* ExecuteStep in two steps, for callers that run side by side: lines 344-370,
\* the read of the stored saga and the checks on the step's status ...
DriverExecuteStepRead(d) ==
    /\ drv[d].pc = "loop"
    /\ drv[d].idx <= Len(Steps(d))
    /\ drv[d].idx <= MaxRaceSteps
    /\ LET stepID == Steps(d)[drv[d].idx].id
           saga == GetSagaState(store)
           j == FindStep(saga.steps, stepID)
       IN IF ~store.exists
          THEN Moved(d, Return(d, "err_state"))
          ELSE IF j = 0
          THEN Moved(d, Return(d, "err_step_not_found"))
          ELSE LET dec == ExecuteStepDecision(saga.steps[j]) IN
               IF dec = "noop"
               THEN Moved(d, [drv[d] EXCEPT !.idx = @ + 1])
               ELSE IF dec = "busy"
               THEN Moved(d, [drv[d] EXCEPT !.pc = "markFailed",
                                            !.stepErr = "err_step_busy"])
               ELSE Moved(d, [drv[d] EXCEPT !.pc = "execSave", !.snap = saga])
    /\ UNCHANGED << store, eventLog, published, nextEventId, execCalls, compCalls,
                    doneCalls, faults, cfaults, runs, crashes >>
    /\ UNCHANGED notDriver

\* ... and lines 375-382, the step set to Executing on the copy that was
\* read, and the save of that copy.
DriverExecuteStepSave(d) ==
    /\ drv[d].pc = "execSave"
    /\ LET saga == drv[d].snap
           j == FindStep(saga.steps, Steps(d)[drv[d].idx].id)
           snap == SetStep(saga, j, MarkExecuting(saga.steps[j]))
       IN /\ store' = SaveSagaState(snap)
          /\ Moved(d, [drv[d] EXCEPT !.pc = "attempt", !.attempt = 0, !.snap = snap])
    /\ UNCHANGED << eventLog, published, nextEventId, execCalls, compCalls, doneCalls,
                    faults, cfaults, runs, crashes >>
    /\ UNCHANGED notDriver

\* ExecuteStep's test for the last pass of its retry loop.
LastAttemptLate(attempt) == attempt = maxRetries + 1

LastAttempt(attempt) == attempt = maxRetries

\* One pass of ExecuteStep's retry loop: executeStepInternal (the executor,
\* then the step event), then the save of Completed, or of Failed after the
\* last attempt.
DriverAttempt(d) ==
    /\ drv[d].pc = "attempt"
    /\ ~drv[d].cancelled
    /\ LET stepID == Steps(d)[drv[d].idx].id
           snap == drv[d].snap
           j == FindStep(snap.steps, stepID)
       IN \E execOk \in BOOLEAN, pubOk \in BOOLEAN :
          /\ execOk \/ pubOk
          /\ execOk => ~ExecutorRejects(stepID)
          /\ execCalls' = [execCalls EXCEPT ![stepID] = @ + 1]
          /\ IF execOk
             THEN Emit(ReportGenerated, pubOk)
             ELSE /\ ExecutorRejects(stepID) \/ faults > 0
                  /\ faults' = IF ExecutorRejects(stepID) THEN faults ELSE faults - 1
                  /\ UNCHANGED << eventLog, nextEventId, published >>
          /\ IF execOk /\ pubOk
             THEN LET done == SetStep(snap, j, MarkCompleted(snap.steps[j])) IN
                  /\ store' = SaveSagaState(done)
                  /\ doneCalls' = [doneCalls EXCEPT ![stepID] =
                                      IF @ = -1 THEN execCalls'[stepID] ELSE @]
                  /\ Moved(d, [drv[d] EXCEPT !.pc = "loop", !.idx = @ + 1, !.snap = NoRow])
             ELSE IF LastAttempt(drv[d].attempt)
             THEN LET failed == SetStep(snap, j, MarkFailed(snap.steps[j])) IN
                  /\ store' = StoreIncrementRetryCount(SaveSagaState(failed))
                  /\ UNCHANGED doneCalls
                  /\ Moved(d, [drv[d] EXCEPT !.pc = "markFailed", !.snap = NoRow,
                                             !.stepErr = "err_step_failed"])
             ELSE /\ UNCHANGED << store, doneCalls >>
                  /\ Moved(d, [drv[d] EXCEPT !.attempt = @ + 1])
    /\ UNCHANGED << compCalls, cfaults, runs, crashes >>
    /\ UNCHANGED notDriver

\* The pass of ExecuteStep's retry loop in which the attempt succeeds and the
\* save of the Completed step fails: lines 400-402 log the error, ExecuteStep
\* returns nil and Execute goes on to the next step.
DriverAttemptSaveFails(d) ==
    /\ drv[d].pc = "attempt"
    /\ ~drv[d].cancelled
    /\ LET stepID == Steps(d)[drv[d].idx].id
       IN /\ ~ExecutorRejects(stepID)
          /\ faults > 0
          /\ faults' = faults - 1
          /\ execCalls' = [execCalls EXCEPT ![stepID] = @ + 1]
          /\ EmitEvent(ReportGenerated, TRUE)
          /\ doneCalls' = [doneCalls EXCEPT ![stepID] =
                              IF @ = -1 THEN execCalls'[stepID] ELSE @]
          /\ Moved(d, [drv[d] EXCEPT !.pc = "loop", !.idx = @ + 1, !.snap = NoRow])
    /\ UNCHANGED << store, compCalls, cfaults, runs, crashes >>
    /\ UNCHANGED notDriver

\* Execute, line 161: the failed step's saga is marked Failed.
DriverMarkFailed(d) ==
    /\ drv[d].pc = "markFailed"
    /\ \E pubOk \in BOOLEAN : UpdateSagaStatus(SagaStatusFailed, pubOk)
    /\ Moved(d, [drv[d] EXCEPT !.pc = "comp", !.cidx = drv[d].idx - 1,
                               !.failedAt = drv[d].idx])
    /\ UNCHANGED << execCalls, compCalls, doneCalls, cfaults, runs, crashes >>
    /\ UNCHANGED notDriver

\* Execute, lines 173-178: all steps returned success.
DriverFinish(d) ==
    /\ drv[d].pc = "loop"
    /\ drv[d].idx > Len(Steps(d))
    /\ \E pubOk \in BOOLEAN : UpdateSagaStatus(SagaStatusCompleted, pubOk)
    /\ Moved(d, Return(d, "ok"))
    /\ UNCHANGED << execCalls, compCalls, doneCalls, cfaults, runs, crashes >>
    /\ UNCHANGED notDriver

\* compensate's loop header: the next index at or below c whose in-memory
\* step has a compensation, 0 when the loop is over.
NextCompNoSkip(steps, c) == c

NextComp(steps, c) ==
    LET todo == {i \in 1..c : steps[i].compensate # "none"}
    IN IF todo = {} THEN 0 ELSE CHOOSE i \in todo : \A k \in todo : k <= i

\* compensate's loop step, line 186: the index the loop goes to after index c.
PreviousIndexNone(c) == 0

PreviousIndex(c) == c - 1

\* compensate, lines 186-196, and CompensateStep up to its retry loop.
DriverCompensateStep(d) ==
    /\ drv[d].pc = "comp"
    /\ LET c == NextComp(Steps(d), drv[d].cidx) IN
       /\ c > 0
       /\ LET stepID == Steps(d)[c].id
              saga == GetSagaState(store)
              j == FindStep(saga.steps, stepID)
              called == [drv[d] EXCEPT !.compLog = Append(@, c), !.cidx = PreviousIndex(c)]
          IN IF ~store.exists \/ j = 0
             THEN Moved(d, called) /\ UNCHANGED << store, doneCalls >>
             ELSE LET dec == CompensateStepDecision(saga.steps[j]) IN
                  IF dec = "noop"
                  THEN Moved(d, called) /\ UNCHANGED << store, doneCalls >>
                  ELSE IF dec = "mark"
                  THEN /\ store' = SaveSagaState(SetStep(saga, j, MarkCompensated(saga.steps[j])))
                       /\ doneCalls' = [doneCalls EXCEPT ![stepID] = -1]
                       /\ Moved(d, called)
                  ELSE /\ UNCHANGED << store, doneCalls >>
                       /\ Moved(d, [called EXCEPT !.pc = "compAttempt", !.attempt = 0,
                                                  !.cidx = c, !.snap = saga])
    /\ UNCHANGED << eventLog, published, nextEventId, execCalls, compCalls, faults,
                    cfaults, runs, crashes >>
    /\ UNCHANGED notDriver

\* One pass of CompensateStep's retry loop: compensateStepInternal, then the
\* save of Compensated; after the last failed attempt the error is returned
\* and the step is left as stored.
DriverCompAttempt(d) ==
    /\ drv[d].pc = "compAttempt"
    /\ ~drv[d].cancelled
    /\ LET stepID == Steps(d)[drv[d].cidx].id
           snap == drv[d].snap
           j == FindStep(snap.steps, stepID)
       IN \E compOk \in BOOLEAN, pubOk \in BOOLEAN :
          /\ compOk \/ pubOk
          /\ compCalls' = [compCalls EXCEPT ![stepID] = @ + 1]
          /\ IF compOk
             THEN /\ pubOk \/ cfaults > 0
                  /\ cfaults' = IF pubOk THEN cfaults ELSE cfaults - 1
                  /\ EmitEvent(SagaCompensated, pubOk)
             ELSE /\ cfaults > 0
                  /\ cfaults' = cfaults - 1
                  /\ UNCHANGED << eventLog, nextEventId, published >>
          /\ UNCHANGED faults
          /\ IF compOk /\ pubOk
             THEN /\ store' = SaveSagaState(SetStep(snap, j, MarkCompensated(snap.steps[j])))
                  /\ doneCalls' = [doneCalls EXCEPT ![stepID] = -1]
                  /\ Moved(d, [drv[d] EXCEPT !.pc = "comp", !.cidx = PreviousIndex(@),
                                             !.snap = NoRow])
             ELSE IF drv[d].attempt = maxRetries
             THEN /\ UNCHANGED << store, doneCalls >>
                  /\ Moved(d, [drv[d] EXCEPT !.pc = "comp", !.cidx = PreviousIndex(@),
                                             !.snap = NoRow])
             ELSE /\ UNCHANGED << store, doneCalls >>
                  /\ Moved(d, [drv[d] EXCEPT !.attempt = @ + 1])
    /\ UNCHANGED << execCalls, runs, crashes >>
    /\ UNCHANGED notDriver

\* compensate, lines 203-208: the loop is over, the saga is marked
\* Compensated and Execute returns the compensation error.
DriverMarkCompensated(d) ==
    /\ drv[d].pc = "comp"
    /\ NextComp(Steps(d), drv[d].cidx) = 0
    /\ \E pubOk \in BOOLEAN : UpdateSagaStatus(SagaStatusCompensated, pubOk)
    /\ Moved(d, Return(d, "err_compensated"))
    /\ UNCHANGED << execCalls, compCalls, doneCalls, cfaults, runs, crashes >>
    /\ UNCHANGED notDriver

\* The process running a driver stops (restart, cancelled request context):
\* the goroutine is gone, the tables stay as they are.
Crash(d) ==
    /\ drv[d].pc # "idle"
    /\ crashes > 0
    /\ crashes' = crashes - 1
    /\ Moved(d, [Return(d, "crashed") EXCEPT !.crashedIn = drv[d].pc])
    /\ UNCHANGED << store, eventLog, published, nextEventId, execCalls, compCalls,
                    doneCalls, faults, cfaults, runs >>
    /\ UNCHANGED notDriver

(***************************************************************************)
(* A driver whose context is cancelled while it sleeps between attempts.   *)
(***************************************************************************)
\* The context handed to Execute is cancelled while ExecuteStep or
\* CompensateStep is in time.Sleep(sc.retryDelay) before a further attempt.
ContextCancelled(d) ==
    /\ drv[d].pc \in {"attempt", "compAttempt"}
    /\ drv[d].attempt > 0
    /\ ~drv[d].cancelled
    /\ Moved(d, [drv[d] EXCEPT !.cancelled = TRUE])
    /\ UNCHANGED << store, eventLog, published, nextEventId, execCalls, compCalls,
                    doneCalls, faults, cfaults, runs, crashes >>
    /\ UNCHANGED notDriver

\* One pass of ExecuteStep's retry loop once the sleep is over, the context
\* cancelled: executeStepInternal runs as before, every store call
\* (LogEvent, SaveSagaState, IncrementRetryCount) fails with the context's
\* error.  After a success or the last attempt, the rest of Execute changes
\* nothing: each later ExecuteStep, UpdateSagaStatus and CompensateStep
\* returns at its first store call.
DriverAttemptCancelled(d) ==
    /\ drv[d].pc = "attempt"
    /\ drv[d].cancelled
    /\ LET stepID == Steps(d)[drv[d].idx].id
       IN \E execOk \in BOOLEAN, pubOk \in BOOLEAN :
          /\ execOk \/ pubOk
          /\ execOk => ~ExecutorRejects(stepID)
          /\ execCalls' = [execCalls EXCEPT ![stepID] = @ + 1]
          /\ IF execOk
             THEN /\ pubOk \/ faults > 0
                  /\ faults' = IF pubOk THEN faults ELSE faults - 1
                  /\ nextEventId' = nextEventId + 1
                  /\ published' = IF pubOk
                                  THEN [published EXCEPT ![ReportGenerated] = @ + 1]
                                  ELSE published
             ELSE /\ ExecutorRejects(stepID) \/ faults > 0
                  /\ faults' = IF ExecutorRejects(stepID) THEN faults ELSE faults - 1
                  /\ UNCHANGED << nextEventId, published >>
          /\ IF execOk /\ pubOk
             THEN Moved(d, Return(d, IF drv[d].idx = Len(Steps(d))
                                     THEN "ok" ELSE "err_compensated"))
             ELSE IF LastAttempt(drv[d].attempt)
             THEN Moved(d, [Return(d, "err_compensated") EXCEPT
                               !.stepErr = "err_step_failed"])
             ELSE Moved(d, [drv[d] EXCEPT !.attempt = @ + 1])
    /\ UNCHANGED << store, eventLog, doneCalls, compCalls, cfaults, runs, crashes >>
    /\ UNCHANGED notDriver

\* The same for CompensateStep's retry loop.
DriverCompAttemptCancelled(d) ==
    /\ drv[d].pc = "compAttempt"
    /\ drv[d].cancelled
    /\ LET stepID == Steps(d)[drv[d].cidx].id
       IN \E compOk \in BOOLEAN, pubOk \in BOOLEAN :
          /\ compOk \/ pubOk
          /\ compCalls' = [compCalls EXCEPT ![stepID] = @ + 1]
          /\ IF compOk
             THEN /\ pubOk \/ cfaults > 0
                  /\ cfaults' = IF pubOk THEN cfaults ELSE cfaults - 1
                  /\ nextEventId' = nextEventId + 1
                  /\ published' = IF pubOk
                                  THEN [published EXCEPT ![SagaCompensated] = @ + 1]
                                  ELSE published
             ELSE /\ cfaults > 0
                  /\ cfaults' = cfaults - 1
                  /\ UNCHANGED << nextEventId, published >>
          /\ IF (compOk /\ pubOk) \/ drv[d].attempt = maxRetries
             THEN Moved(d, Return(d, "err_compensated"))
             ELSE Moved(d, [drv[d] EXCEPT !.attempt = @ + 1])
    /\ UNCHANGED << store, eventLog, doneCalls, execCalls, faults, runs, crashes >>
    /\ UNCHANGED notDriver

(***************************************************************************)
(* Request handlers of the saga endpoints.                                 *)
(***************************************************************************)
notAdmin == << outbox, bus, pub, reports, ticks, rows, routed, deliveries, execCalls, compCalls,
               doneCalls, drv, cfaults, runs, crashes >>

\* SagaHandler.CreateReportSaga, line 69: StartSaga on a freshly built saga.
CreateReportSaga ==
    /\ admins > 0
    /\ admins' = admins - 1
    /\ \E pubOk \in BOOLEAN, res \in {"ok", "publish_error", "already_running"} :
          /\ StartSaga(NewIdempotentReportCreationSaga, CreateReportSagaData, pubOk, res)
          /\ lastCall' = [op |-> "StartSaga", result |-> res]
    /\ UNCHANGED notAdmin

\* SagaHandler.CancelSaga.
CancelSaga ==
    /\ admins > 0
    /\ admins' = admins - 1
    /\ IF ~store.exists
       THEN /\ lastCall' = [op |-> "CancelSaga", result |-> "not_found"]
            /\ UNCHANGED store /\ NoEmit
       ELSE IF GetSagaState(store).status = SagaStatusCompleted
       THEN /\ lastCall' = [op |-> "CancelSaga", result |-> "rejected"]
            /\ UNCHANGED store /\ NoEmit
       ELSE \E pubOk \in BOOLEAN :
            /\ UpdateSagaStatus(SagaStatusFailed, pubOk)
            /\ lastCall' = [op |-> "CancelSaga",
                            result |-> IF pubOk THEN "ok" ELSE "publish_error"]
    /\ UNCHANGED notAdmin

(***************************************************************************)
(* Outbox store and publisher.                                             *)
(***************************************************************************)
\* NewEvent: the envelope of an event, its id and timestamp generated from
\* the clock at composition, its metadata an empty map.
NewEvent(eventID, eventType, data) ==
    [id |-> << "event", eventID >>, type |-> eventType, source |-> "report-service",
     timestamp |-> << "composed", eventID >>, data |-> data, metadata |-> "empty"]

\* The Data the coordinator's events carry.
EventData == UnmarshalData({<< "saga_id", SagaID >>})

\* OutboxManager.SaveEvent: a new pending row under a fresh row id (a uuid),
\* created_at read from the clock; the event's id goes to aggregate_id, its
\* type and its marshalled data to their columns, nothing else is kept.
SaveEvent(ob, event) ==
    Append(ob, [id |-> Len(ob) + 1, eventType |-> event.type, aggregateID |-> event.id,
                data |-> MarshalData(event.data), status |-> "pending",
                processedAt |-> FALSE, retryCount |-> 0, error |-> FALSE])

\* publishPendingEvents, lines 157-172: the Event built from a row.
EventToPublish(row) ==
    [id |-> << "uuid", row.id >>, type |-> row.eventType, source |-> "report-service",
     timestamp |-> << "created_at", row.id >>, data |-> UnmarshalData(row.data),
     metadata |-> "nil"]

\* What the bus side keeps per outbox row: the envelope handed to SaveEvent,
\* the publishes handed over and accepted, the last event handed over.
NoEvent == [id |-> "none"]
NewBusEntry(event) == [handed |-> 0, accepted |-> 0, saved |-> event, last |-> NoEvent]

MarkAsProcessing(ob, id) == [ob EXCEPT ![id].status = "processing"]
MarkAsProcessedNoTime(ob, id) == [ob EXCEPT ![id].status = "processed"]

MarkAsProcessed(ob, id) == [ob EXCEPT ![id].status = "processed", ![id].processedAt = TRUE]
MarkAsFailed(ob, id) == [ob EXCEPT ![id].status = "failed", ![id].error = TRUE]
IncrementRetryCount(ob, id) == [ob EXCEPT ![id].retryCount = @ + 1]

\* Row ids GetPendingEvents may select.
PendingIdsOrFailed(ob) == {i \in 1..Len(ob) : ob[i].status \in {"pending", "failed"}}

PendingIds(ob) == {i \in 1..Len(ob) : ob[i].status = "pending"}

Min(a, b) == IF a <= b THEN a ELSE b

\* GetPendingEvents(limit): status = pending, LIMIT limit, no ORDER BY: any
\* limit-sized selection of the pending rows in any order.
GetPendingEvents(ob, limit) ==
    LET n == Min(limit, Cardinality(PendingIds(ob)))
    IN {b \in [1..n -> PendingIds(ob)] : \A x, y \in 1..n : x # y => b[x] # b[y]}

BatchSizes == {1, 2}

\* A caller saves an event to the outbox.
OutboxSaveEvent ==
    /\ rows > 0 /\ rows' = rows - 1
    /\ \E t \in {SagaStarted, ReportGenerated} :
          /\ outbox' = SaveEvent(outbox, NewEvent(nextEventId, t, EventData))
          /\ bus' = Append(bus, NewBusEntry(NewEvent(nextEventId, t, EventData)))
    /\ nextEventId' = nextEventId + 1
    /\ UNCHANGED << store, eventLog, published, execCalls, compCalls, doneCalls, drv,
                    routed, lastCall, pub, reports, faults, cfaults, runs, admins, crashes, deliveries,
                    ticks >>

notPublisher == << store, eventLog, published, nextEventId, execCalls, compCalls,
                   doneCalls, drv, routed, lastCall, faults, cfaults, runs, admins,
                   crashes, deliveries, rows, reports >>

\* publishPendingEvents, lines 138-146: a tick fetches the batch.
PublisherTick ==
    /\ pub.phase = "idle"
    /\ ticks > 0
    /\ ticks' = ticks - 1
    /\ \E limit \in BatchSizes : \E b \in GetPendingEvents(outbox, limit) :
          pub' = [batch |-> b, phase |-> IF Len(b) = 0 THEN "idle" ELSE "mark"]
    /\ UNCHANGED << outbox, bus >>
    /\ UNCHANGED notPublisher

\* publishPendingEvents, line 152.
PublisherMarkProcessing ==
    /\ pub.phase = "mark"
    /\ outbox' = MarkAsProcessing(outbox, Head(pub.batch))
    /\ pub' = [pub EXCEPT !.phase = "publish"]
    /\ UNCHANGED << bus, ticks >>
    /\ UNCHANGED notPublisher

\* publishPendingEvents, lines 157-187: the row is decoded and published,
\* then marked processed, or counted and marked failed.
PublisherPublish ==
    /\ pub.phase = "publish"
    /\ LET id == Head(pub.batch) rest == Tail(pub.batch) IN
       \E ok \in BOOLEAN :
          /\ bus' = [bus EXCEPT ![id].handed = @ + 1,
                                ![id].accepted = IF ok THEN @ + 1 ELSE @,
                                ![id].last = EventToPublish(outbox[id])]
          /\ outbox' = IF ok THEN MarkAsProcessed(outbox, id)
                       ELSE MarkAsFailed(IncrementRetryCount(outbox, id), id)
          /\ pub' = [batch |-> rest, phase |-> IF Len(rest) = 0 THEN "idle" ELSE "mark"]
    /\ UNCHANGED ticks
    /\ UNCHANGED notPublisher

\* The process restarts: the loop is started anew, the batch in hand is lost.
PublisherRestart ==
    /\ pub.phase # "idle"
    /\ crashes > 0
    /\ crashes' = crashes - 1
    /\ pub' = [batch |-> << >>, phase |-> "idle"]
    /\ UNCHANGED << outbox, bus, ticks, rows, store, eventLog, published, nextEventId,
                    execCalls, compCalls, doneCalls, drv, routed, lastCall, faults,
                    cfaults, runs, admins, deliveries, reports >>

(***************************************************************************)
(* ForceCompleteSaga of the coordinator: the status is set to Completed    *)
(* whatever it was and saga.completed is written to the outbox.            *)
(***************************************************************************)
ForceCompleteSaga ==
    /\ admins > 0
    /\ admins' = admins - 1
    /\ store' = StoreUpdateSagaStatus(store, SagaStatusCompleted)
    /\ rows > 0 /\ rows' = rows - 1
    /\ outbox' = SaveEvent(outbox, NewEvent(nextEventId, SagaCompleted, EventData))
    /\ bus' = Append(bus, NewBusEntry(NewEvent(nextEventId, SagaCompleted, EventData)))
    /\ nextEventId' = nextEventId + 1
    /\ lastCall' = [op |-> "ForceCompleteSaga", result |-> "ok"]
    /\ UNCHANGED << eventLog, published, execCalls, compCalls, doneCalls, drv, routed,
                    pub, reports, faults, cfaults, runs, crashes, deliveries, ticks >>

(***************************************************************************)
(* Inbound events.                                                         *)
(***************************************************************************)
\* The type each inbound event id carries.
ExternalEventType(e) == IF e = -1 THEN SagaStarted ELSE SagaCompleted

\* IdempotentSagaCoordinator.HandleSagaEvent for a delivery of event e.
HandleSagaEvent(e) ==
    /\ deliveries > 0
    /\ deliveries' = deliveries - 1
    /\ IF IsEventProcessed(eventLog, e)
       THEN /\ UNCHANGED << eventLog, routed >>
            /\ lastCall' = [op |-> "HandleSagaEvent", result |-> "skipped"]
       ELSE /\ eventLog' = LogEvent(eventLog, SagaID, e, ExternalEventType(e))
            /\ routed' = [routed EXCEPT ![e] = @ + 1]
            /\ lastCall' = [op |-> "HandleSagaEvent", result |-> "routed"]
    /\ UNCHANGED << store, outbox, bus, published, nextEventId, execCalls, compCalls,
                    doneCalls, drv, pub, reports, faults, cfaults, runs, admins, crashes, ticks,
                    rows >>

(***************************************************************************)
(* The reports table and the step handler that works on it.                *)
(***************************************************************************)
\* The report id CreateReportSaga gives NewIdempotentReportCreationSaga.
SagaReportID == 0

\* The user a saga runs for.
UserOf(sg) == sg

\* ReportService.CreateReport: a new row, its primary key the next number;
\* the table is kept in creation order.
CreateReport(table, userID) ==
    Append(table, [id |-> Len(table) + 1, userID |-> userID, status |-> "pending",
                   filePath |-> "none"])

\* ReportRepository.GetAll with no status filter: newest first, then the page.
GetAll(table, page, limit) ==
    LET newestFirst == [i \in 1..Len(table) |-> table[Len(table) + 1 - i]]
        offset == (page - 1) * limit
        last == IF offset + limit < Len(table) THEN offset + limit ELSE Len(table)
    IN  SubSeq(newestFirst, offset + 1, last)

\* ReportService.GetReports: the user id is not part of the query.
GetReports(table, userID, page, limit) == GetAll(table, page, limit)

UpdateReportStatus(table, id, status) ==
    [i \in 1..Len(table) |->
        IF table[i].id = id THEN [table[i] EXCEPT !.status = status] ELSE table[i]]

UpdateReportFilePath(table, id, filePath) ==
    [i \in 1..Len(table) |->
        IF table[i].id = id THEN [table[i] EXCEPT !.filePath = filePath] ELSE table[i]]

\* What a step of a saga did to a row of the table, or published about it.
Access(sg, step, id) == [saga |-> sg, step |-> step, report |-> id]

notReports == << store, eventLog, outbox, bus, published, nextEventId, execCalls,
                 compCalls, doneCalls, drv, routed, lastCall, pub, faults, cfaults,
                 runs, admins, crashes, deliveries, ticks, rows >>

\* SagaStepHandler.generateReport: creates the report of the saga.
generateReport(sg) ==
    /\ reports.pos[sg] = "generate-report"
    /\ LET table == CreateReport(reports.table, UserOf(sg))
           id == table[Len(table)].id
       IN  reports' = [reports EXCEPT
                          !.table = table,
                          !.created[sg] = id,
                          !.accessed = @ \cup {Access(sg, "generate-report", id)},
                          !.pos[sg] = "store-file"]
    /\ UNCHANGED notReports

\* SagaStepHandler.executeStorageServiceStep: the report id of the step data.
storeFile(sg) ==
    /\ reports.pos[sg] = "store-file"
    /\ reports' = [reports EXCEPT
                      !.table = UpdateReportFilePath(@, SagaReportID, << "report", SagaReportID >>),
                      !.accessed = @ \cup {Access(sg, "store-file", reports.table[i].id) :
                                              i \in {j \in 1..Len(reports.table) :
                                                        reports.table[j].id = SagaReportID}},
                      !.pos[sg] = "send-notification"]
    /\ UNCHANGED notReports

\* SagaStepHandler.executeNotificationServiceStep: the event names the first
\* report of GetReports(user, "", 1, 1).
sendNotification(sg) ==
    /\ reports.pos[sg] = "send-notification"
    /\ LET found == GetReports(reports.table, UserOf(sg), 1, 1)
       IN  /\ Len(found) > 0
           /\ reports' = [reports EXCEPT
                             !.accessed = @ \cup {Access(sg, "send-notification", found[1].id)},
                             !.pos[sg] = "update-status"]
    /\ UNCHANGED notReports

\* SagaStepHandler.updateReportStatus: the status of the first report of
\* GetReports(user, "", 1, 1) is set.
updateReportStatus(sg) ==
    /\ reports.pos[sg] = "update-status"
    /\ LET found == GetReports(reports.table, UserOf(sg), 1, 1)
       IN  /\ Len(found) > 0
           /\ reports' = [reports EXCEPT
                             !.table = UpdateReportStatus(@, found[1].id, "completed"),
                             !.accessed = @ \cup {Access(sg, "update-status", found[1].id)},
                             !.pos[sg] = "done"]
    /\ UNCHANGED notReports

(***************************************************************************)
(* Specifications.                                                         *)
(***************************************************************************)
DriverStep(d) ==
    \/ DriverStartSaga(d)
    \/ DriverExecuteStep(d)
    \/ DriverAttempt(d)
    \/ DriverMarkFailed(d)
    \/ DriverFinish(d)
    \/ DriverCompensateStep(d)
    \/ DriverCompAttempt(d)
    \/ DriverMarkCompensated(d)

\* The service as its handlers wire it: Execute on the saga a create request
\* built, RetryFailedSaga on the id-only saga of the retry endpoint, the saga
\* endpoints, and process stops.
Next ==
    \/ Execute("d1", "full")
    \/ RetryFailedSaga("d1", "temp")
    \/ DriverStep("d1")
    \/ Crash("d1")
    \/ CreateReportSaga
    \/ CancelSaga
    \/ ForceCompleteSaga

Spec == Init /\ [][Next]_vars

\* The driver alone: Execute and RetryFailedSaga invocations, one after the other.
InitDriver ==
    /\ InitState
    /\ faults = MaxFaults /\ cfaults = 0 /\ runs = MaxRuns /\ admins = 0 /\ crashes = 0
    /\ deliveries = 0 /\ ticks = 0 /\ rows = 0

NextDriver ==
    \/ \E k \in SagaKinds : Execute("d1", k)
    \/ \E k \in SagaKinds : RetryFailedSaga("d1", k)
    \/ DriverStep("d1")

SpecDriver == InitDriver /\ [][NextDriver]_vars

\* The driver alone, with compensations that fail.
InitUnwind ==
    /\ InitState
    /\ faults = 0 /\ cfaults = MaxCompFaults /\ runs = MaxRuns /\ admins = 0 /\ crashes = 0
    /\ deliveries = 0 /\ ticks = 0 /\ rows = 0

SpecUnwind == InitUnwind /\ [][NextDriver]_vars

\* One driver run over a store whose save of a completed step can fail.
InitDurable ==
    /\ InitState
    /\ faults = MaxFaults /\ cfaults = 0 /\ runs = 1 /\ admins = 0 /\ crashes = 0
    /\ deliveries = 0 /\ ticks = 0 /\ rows = 0

NextDurable ==
    \/ NextDriver
    \/ DriverAttemptSaveFails("d1")

SpecDurable == InitDurable /\ [][NextDurable]_vars

\* The driver and the cancel endpoint, with an executor that never fails by
\* chance.
InitRequests ==
    /\ InitState
    /\ faults = 0 /\ cfaults = 0 /\ runs = MaxRuns /\ admins = MaxAdmin /\ crashes = 0
    /\ deliveries = 0 /\ ticks = 0 /\ rows = 0

NextRequests ==
    \/ NextDriver
    \/ CancelSaga

SpecRequests == InitRequests /\ [][NextRequests]_vars

\* One Execute whose context may be cancelled during a retry wait.
InitCancel ==
    /\ InitState
    /\ faults = MaxFaults /\ cfaults = MaxCompFaults /\ runs = 1 /\ admins = 0
    /\ crashes = 0 /\ deliveries = 0 /\ ticks = 0 /\ rows = 0

NextCancel ==
    \/ \E k \in SagaKinds : Execute("d1", k)
    \/ DriverStep("d1")
    \/ ContextCancelled("d1")
    \/ DriverAttemptCancelled("d1")
    \/ DriverCompAttemptCancelled("d1")

SpecCancel == InitCancel /\ [][NextCancel]_vars

DriverSteps(d) ==
    \/ DriverExecuteStep(d)
    \/ DriverAttempt(d)
    \/ DriverMarkFailed(d)
    \/ DriverFinish(d)
    \/ DriverCompensateStep(d)
    \/ DriverCompAttempt(d)
    \/ DriverMarkCompensated(d)

\* Two drivers side by side on the same saga id: Execute on the saga a create
\* request built next to Execute on the id-only saga of a retry request,
\* StartSaga in its two steps.
InitRace ==
    /\ InitState
    /\ faults = 0 /\ cfaults = 0 /\ runs = MaxRuns /\ admins = 0 /\ crashes = 0
    /\ deliveries = 0 /\ ticks = 0 /\ rows = 0

NextRace ==
    \/ Execute("d1", "full")
    \/ Execute("d2", "temp")
    \/ \E d \in Drivers :
        \/ DriverStartSagaRead(d)
        \/ DriverStartSagaSave(d)
        \/ DriverSteps(d)

SpecRace == InitRace /\ [][NextRace]_vars

\* Two Execute calls side by side on the same saga object, StartSaga and
\* ExecuteStep each in their two steps, over the first MaxRaceSteps steps.
NextStepRace ==
    \/ Execute("d1", "full")
    \/ Execute("d2", "full")
    \/ \E d \in Drivers :
        \/ DriverStartSagaRead(d)
        \/ DriverStartSagaSave(d)
        \/ DriverExecuteStepRead(d)
        \/ DriverExecuteStepSave(d)
        \/ DriverAttempt(d)
        \/ DriverMarkFailed(d)
        \/ DriverMarkCompensated(d)

SpecStepRace == InitRace /\ [][NextStepRace]_vars

\* SaveSagaState followed by GetSagaState, on its own.  The sagas handed in:
\* every status and error, step lists up to MaxLen over steps with and without
\* each field that is left out of the stored text when empty.
StepSamples ==
    {[NewStep(st[1], st[2]) EXCEPT !.status = o[1], !.error = o[2], !.executedAt = x,
                                   !.completedAt = o[3]] :
        st \in {<< "validate-user", "none" >>, << "generate-report", "delete_report" >>},
        o \in {<< SagaStepPending, FALSE, FALSE >>, << SagaStepCompleted, FALSE, TRUE >>,
               << SagaStepFailed, TRUE, FALSE >>},
        x \in BOOLEAN}

DataSamples ==
    {ExecuteData, CreateReportSagaData, UnmarshalData({<< "report_id", "7" >>})}

SagaSamples ==
    {[id |-> SagaID, name |-> SagaName, status |-> status, steps |-> steps,
      data |-> data, error |-> e] :
        status \in {SagaStatusPending, SagaStatusExecuting, SagaStatusCompleted,
                    SagaStatusFailed, SagaStatusCompensated},
        steps \in UNION {[1..n -> StepSamples] : n \in 0..MaxLen},
        data \in DataSamples, e \in BOOLEAN}

SaveThenGet ==
    /\ lastCall.op = "SaveSagaState"
    /\ store' = SaveSagaState(lastCall.arg)
    /\ lastCall' = [op |-> "GetSagaState", arg |-> lastCall.arg,
                    result |-> GetSagaState(store')]
    /\ UNCHANGED << eventLog, outbox, bus, published, nextEventId, execCalls, compCalls,
                    doneCalls, drv, routed, pub, reports, faults, cfaults, runs, admins, crashes,
                    deliveries, ticks, rows >>

InitRoundTrip ==
    /\ InitTables
    /\ \E saga \in SagaSamples : lastCall = [op |-> "SaveSagaState", arg |-> saga]
    /\ faults = 0 /\ cfaults = 0 /\ runs = 0 /\ admins = 0 /\ crashes = 0
    /\ deliveries = 0 /\ ticks = 0 /\ rows = 0

SpecRoundTrip == InitRoundTrip /\ [][SaveThenGet]_vars

\* CompensateStep on its own, called for any step of a stored saga.  The
\* stored sagas: the report-creation saga failed at its last step, with the
\* steps collect-data, generate-report and store-file in every combination of
\* Completed, Compensated and Failed.
CompensateSagaSamples ==
    {[id |-> SagaID, name |-> SagaName, status |-> SagaStatusFailed,
      steps |-> [i \in 1..Len(NewIdempotentReportCreationSaga) |->
                   [NewIdempotentReportCreationSaga[i] EXCEPT
                       !.status = IF i \in DOMAIN st THEN st[i]
                                  ELSE IF i = Len(NewIdempotentReportCreationSaga)
                                  THEN SagaStepFailed ELSE SagaStepCompleted,
                       !.executedAt = TRUE]],
      data |-> ExecuteData, error |-> FALSE] :
        st \in [{3, 4, 5} -> {SagaStepCompleted, SagaStepCompensated, SagaStepFailed}]}

\* CompensateStep, lines 466-494: the load, the search of the step and the
\* two checks; the retry loop follows under DriverCompAttempt.
CompensateStepCall(d) ==
    /\ drv[d].pc = "idle"
    /\ runs > 0
    /\ runs' = runs - 1
    /\ \E c \in 1..Len(NewIdempotentReportCreationSaga) :
         LET stepID == NewIdempotentReportCreationSaga[c].id
             saga == GetSagaState(store)
             j == FindStep(saga.steps, stepID)
         IN IF ~store.exists \/ j = 0
            THEN /\ Moved(d, [IdleDriver EXCEPT !.result = "err_state"])
                 /\ lastCall' = [op |-> "CompensateStep", step |-> stepID,
                                 was |-> "absent", kind |-> "absent", result |-> "error"]
                 /\ UNCHANGED << store, doneCalls >>
            ELSE LET dec == CompensateStepDecision(saga.steps[j]) IN
                 /\ lastCall' = [op |-> "CompensateStep", step |-> stepID,
                                 was |-> saga.steps[j].status,
                                 kind |-> saga.steps[j].compensate,
                                 result |-> IF dec = "run" THEN "dispatching" ELSE "ok"]
                 /\ IF dec = "noop"
                    THEN /\ Moved(d, [IdleDriver EXCEPT !.result = "ok"])
                         /\ UNCHANGED << store, doneCalls >>
                    ELSE IF dec = "mark"
                    THEN /\ store' = SaveSagaState(SetStep(saga, j,
                                                           MarkCompensated(saga.steps[j])))
                         /\ doneCalls' = [doneCalls EXCEPT ![stepID] = -1]
                         /\ Moved(d, [IdleDriver EXCEPT !.result = "ok"])
                    ELSE /\ UNCHANGED << store, doneCalls >>
                         /\ Moved(d, [IdleDriver EXCEPT !.pc = "compAttempt", !.cidx = c,
                                                        !.snap = saga])
    /\ UNCHANGED << eventLog, published, nextEventId, execCalls, compCalls, faults,
                    cfaults, crashes, outbox, bus, pub, reports, ticks, rows, routed, deliveries,
                    admins >>

\* CompensateStep returns to its caller after the retry loop.
CompensateStepReturn(d) ==
    /\ drv[d].pc = "comp"
    /\ Moved(d, Return(d, "returned"))
    /\ UNCHANGED << store, eventLog, published, nextEventId, execCalls, compCalls,
                    doneCalls, faults, cfaults, runs, crashes >>
    /\ UNCHANGED notDriver

InitCompensate ==
    /\ InitCounters
    /\ \E saga \in CompensateSagaSamples : store = SaveSagaState(saga)
    /\ lastCall = [op |-> "none", result |-> "none"]
    /\ faults = 0 /\ cfaults = MaxCompFaults /\ runs = MaxRuns /\ admins = 0 /\ crashes = 0
    /\ deliveries = 0 /\ ticks = 0 /\ rows = 0

NextCompensate ==
    \/ CompensateStepCall("d1")
    \/ DriverCompAttempt("d1")
    \/ CompensateStepReturn("d1")

SpecCompensate == InitCompensate /\ [][NextCompensate]_vars

\* The event log on its own: LogEvent and IsEventProcessed called with event
\* ids that are new to the table and with ids that are in it.
LogEventIds == {"e1", "e2", "e3", "e4"}

LogEventCall ==
    /\ deliveries > 0
    /\ deliveries' = deliveries - 1
    /\ \E e \in LogEventIds, t \in {SagaStarted, SagaCompleted} :
          /\ eventLog' = LogEvent(eventLog, SagaID, e, t)
          /\ lastCall' = [op |-> "LogEvent", eventID |-> e,
                          present |-> IsEventProcessed(eventLog, e),
                          result |-> LogEventResult(eventLog, NewEventLogRow(SagaID, e, t))]
    /\ UNCHANGED << store, outbox, bus, published, nextEventId, execCalls, compCalls,
                    doneCalls, drv, routed, pub, reports, faults, cfaults, runs, admins, crashes,
                    ticks, rows >>

IsEventProcessedCall ==
    /\ deliveries > 0
    /\ deliveries' = deliveries - 1
    /\ \E e \in LogEventIds :
          lastCall' = [op |-> "IsEventProcessed", eventID |-> e,
                       present |-> IsEventProcessed(eventLog, e),
                       result |-> IF IsEventProcessed(eventLog, e) THEN "true" ELSE "false"]
    /\ UNCHANGED << store, eventLog, outbox, bus, published, nextEventId, execCalls,
                    compCalls, doneCalls, drv, routed, pub, reports, faults, cfaults, runs, admins,
                    crashes, ticks, rows >>

InitEventLog ==
    /\ InitState
    /\ faults = 0 /\ cfaults = 0 /\ runs = 0 /\ admins = 0 /\ crashes = 0
    /\ deliveries = MaxDeliveries /\ ticks = 0 /\ rows = 0

NextEventLog == LogEventCall \/ IsEventProcessedCall

SpecEventLog == InitEventLog /\ [][NextEventLog]_vars

\* The outbox table and its publisher loop.
InitOutbox ==
    /\ InitState
    /\ faults = 0 /\ cfaults = 0 /\ runs = 0 /\ admins = 0 /\ crashes = MaxCrashes
    /\ deliveries = 0 /\ ticks = MaxTicks /\ rows = MaxOutbox

NextOutbox ==
    \/ OutboxSaveEvent
    \/ PublisherTick
    \/ PublisherMarkProcessing
    \/ PublisherPublish
    \/ PublisherRestart

SpecOutbox == InitOutbox /\ [][NextOutbox]_vars

\* The saga endpoints and inbound deliveries, no driver running.
InitEvents ==
    /\ InitState
    /\ faults = MaxFaults /\ cfaults = 0 /\ runs = 0 /\ admins = MaxRequests /\ crashes = 0
    /\ deliveries = MaxDeliveries /\ ticks = 0 /\ rows = MaxOutbox

NextEvents ==
    \/ \E e \in ExternalEventIds : HandleSagaEvent(e)
    \/ CreateReportSaga
    \/ CancelSaga
    \/ ForceCompleteSaga

SpecEvents == InitEvents /\ [][NextEvents]_vars

\* The step handler's report steps, of several sagas side by side.
InitReports ==
    /\ InitState
    /\ faults = 0 /\ cfaults = 0 /\ runs = 0 /\ admins = 0 /\ crashes = 0
    /\ deliveries = 0 /\ ticks = 0 /\ rows = 0

NextReports ==
    \E sg \in Sagas :
        \/ generateReport(sg)
        \/ storeFile(sg)
        \/ sendNotification(sg)
        \/ updateReportStatus(sg)

SpecReports == InitReports /\ [][NextReports]_vars

(***************************************************************************)
(* Claims.                                                                 *)
(***************************************************************************)
Stored(status) == store.exists /\ store.status = status

StoredSteps == IF store.exists THEN GetSagaState(store).steps ELSE << >>

\* C1: whenever the stored saga status is Completed, every stored step of
\* the saga has status Completed.
C1_CompletedStepsCompleted ==
    Stored(SagaStatusCompleted) =>
        \A i \in 1..Len(StoredSteps) : StoredSteps[i].status = SagaStepCompleted

\* C2: an Execute whose StartSaga finds the saga stored as Executing is not
\* turned away as already running; it goes on with the steps.
C2_ExecuteResumesExecuting ==
    \A d \in Drivers :
        drv[d].sawStatus = SagaStatusExecuting => drv[d].result # "already_running"

\* C3: a step that completed and was not compensated since is not dispatched
\* to the executor again: its call count stays what it was on completion.
C3_CompletedNotRedispatched ==
    \A s \in StepIds : doneCalls[s] # -1 => execCalls[s] = doneCalls[s]

HasOutboxEvent(eventType) == \E i \in 1..Len(outbox) : outbox[i].eventType = eventType

\* C4: every committed saga transition has its event row in the outbox:
\* saga.started once the saga is stored, the step event once a step is
\* stored Completed, saga.failed / saga.completed / saga.compensated once
\* that status is stored.
C4_OutboxHasTransitionEvent ==
    /\ store.exists => HasOutboxEvent(SagaStarted)
    /\ (\E i \in 1..Len(StoredSteps) : StoredSteps[i].status = SagaStepCompleted)
          => HasOutboxEvent(ReportGenerated)
    /\ Stored(SagaStatusFailed) => HasOutboxEvent(SagaFailed)
    /\ Stored(SagaStatusCompleted) => HasOutboxEvent(SagaCompleted)
    /\ Stored(SagaStatusCompensated) => HasOutboxEvent(SagaCompensated)

C6_RoutedAtMostOnce ==
    /\ \A r1, r2 \in eventLog : r1.eventID = r2.eventID => r1 = r2
    /\ \A e \in ExternalEventIds : routed[e] <= 1

\* C7: the CompensateStep calls of an Execute that failed at index k go to
\* indices below k only, to steps with a compensation only, in strictly
\* decreasing order (so at most once per step).
C7_CompensationOrder ==
    \A d \in Drivers :
        LET log == drv[d].compLog IN
        \A n \in 1..Len(log) :
            /\ log[n] < drv[d].failedAt
            /\ Steps(d)[log[n]].compensate # "none"
            /\ n > 1 => log[n] < log[n - 1]

\* Execute failed past store-file and called CompensateStep for store-file,
\* then for generate-report.
C7_Witness ==
    /\ drv["d1"].failedAt > 5
    /\ drv["d1"].compLog = << 5, 4 >>

\* C8: whenever the stored status is Compensated, every stored step with a
\* compensation is Compensated or was never executed.
C8_CompensatedMeansUndone ==
    Stored(SagaStatusCompensated) =>
        \A i \in 1..Len(StoredSteps) :
            StoredSteps[i].compensate # "none" =>
                \/ StoredSteps[i].status = SagaStepCompensated
                \/ /\ StoredSteps[i].status = SagaStepPending
                   /\ ~StoredSteps[i].executedAt

\* C9: once the stored status is Completed or Compensated, no step of the
\* program changes the stored status or the stored steps.
C9_TerminalImmutable ==
    [][ (Stored(SagaStatusCompleted) \/ Stored(SagaStatusCompensated))
          => /\ store'.status = store.status
             /\ store'.steps = store.steps ]_vars

\* A step in which StartSaga is called and returns.
StartSagaCall ==
    \/ admins' = admins - 1 /\ lastCall'.op = "StartSaga"
    \* the driver's call: Execute line 115
    \/ \E d \in Drivers :
          drv[d].pc = "start" /\ drv'[d].pc # "start" /\ crashes' = crashes

StartSagaRejected ==
    \/ admins' = admins - 1 /\ lastCall'.result = "already_running"
    \/ \E d \in Drivers : drv[d].pc = "start" /\ drv'[d].result = "already_running"

\* C10: a StartSaga call on a saga stored as Executing fails as already
\* running, leaves the stored saga as it is and emits no event, so a
\* second call right after a successful one adds no saga.started.
C10_DuplicateStartRejected ==
    [][ (Stored(SagaStatusExecuting) /\ StartSagaCall)
          => /\ StartSagaRejected
             /\ UNCHANGED << store, eventLog, published, nextEventId, outbox >> ]_vars

\* The second of two StartSaga calls was rejected; one saga.started exists.
C10_Witness ==
    /\ lastCall = [op |-> "StartSaga", result |-> "already_running"]
    /\ Stored(SagaStatusExecuting)
    /\ published[SagaStarted] = 1

\* C11: when two StartSaga calls for a saga id that neither found stored run
\* side by side, at most one of them succeeds and one saga.started is emitted.
C11_ConcurrentStartOnce ==
    (\A d \in Drivers : drv[d].sawStatus = "none" /\ drv[d].pc \notin {"start", "startSave"}
                        /\ (drv[d].startOk \/ drv[d].result # "none"))
       => /\ Cardinality({d \in Drivers : drv[d].startOk}) <= 1
          /\ published[SagaStarted] = 1

\* C12: an Execute on the full saga of a fresh report, with no Report-row
\* operation and no publish failing, dispatches each of the seven steps once
\* and returns success with the saga and all its steps Completed.
C12_HappyPathCompletes ==
    \A d \in Drivers :
        (/\ drv[d].kind = "full" /\ drv[d].sawStatus = "none" /\ drv[d].startOk
         /\ drv[d].pc = "idle"
         /\ faults = MaxFaults)
           => /\ drv[d].result = "ok"
              /\ Stored(SagaStatusCompleted)
              /\ \A i \in 1..Len(StoredSteps) : StoredSteps[i].status = SagaStepCompleted
              /\ \A id \in StepIds : execCalls[id] = 1

\* C13: a retry of a saga that failed at a step and was unwound is not turned
\* away: no RetryFailedSaga returns "not Failed" on the unwound saga.
C13_RetryAfterUnwindAccepted ==
    \A d \in Drivers :
        ~(drv[d].result = "err_not_failed" /\ Stored(SagaStatusCompensated))

\* C14: ForceCompleteSaga leaves the saga stored as Completed with a
\* saga.completed row in the outbox, and an Execute invoked after it is a
\* no-op: none of its steps dispatches to the executor, changes the stored
\* saga or emits an event.
C14_ExecuteAfterForceIsNoop ==
    [][ /\ (admins' = admins - 1 /\ lastCall'.op = "ForceCompleteSaga" /\ store.exists)
           => (store'.status = SagaStatusCompleted /\ HasOutboxEvent(SagaCompleted)')
        /\ \A d \in Drivers :
              (drv[d].afterForce /\ drv[d].pc # "idle")
                 => UNCHANGED << store, execCalls, compCalls, published, eventLog,
                                 nextEventId, outbox >> ]_vars

\* C15: the stored retry_count of a saga never decreases: no step of the
\* program takes it below the value it had.
C15_RetryCountMonotone ==
    [][ (store.exists /\ store'.exists) => store'.retryCount >= store.retryCount ]_vars

CurrentStoredStep(d, row) ==
    LET steps == GetSagaState(row).steps
    IN steps[FindStep(steps, Steps(d)[drv[d].idx].id)]

C18_StoppedStepRetried ==
    \A d \in Drivers :
        drv[d].afterCrash => drv[d].result # "already_running"

\* C19: the stored status of a saga changes only along Pending -> Executing,
\* Executing -> Completed, Executing -> Failed, Failed -> Executing and
\* Failed -> Compensated.
C19_SagaStatusEdges ==
    [][ (store.exists /\ store'.exists /\ store'.status # store.status)
          => << store.status, store'.status >> \in
                {<< SagaStatusPending, SagaStatusExecuting >>,
                 << SagaStatusExecuting, SagaStatusCompleted >>,
                 << SagaStatusExecuting, SagaStatusFailed >>,
                 << SagaStatusFailed, SagaStatusExecuting >>,
                 << SagaStatusFailed, SagaStatusCompensated >>} ]_vars

\* The stored step with the given id, as GetSagaState returns it.
StoredStep(row, id) ==
    LET steps == GetSagaState(row).steps IN steps[FindStep(steps, id)]

HasStoredStep(row, id) == row.exists /\ FindStep(GetSagaState(row).steps, id) # 0

C21_OneDispatcherPerStep ==
    ~ \E d \in Drivers, e \in Drivers :
          /\ d # e
          /\ drv[d].pc = "attempt" /\ drv[e].pc = "attempt"
          /\ drv[d].idx = drv[e].idx

\* C22: a driver that is inside ExecuteStep or CompensateStep does not write
\* the saga's status column: a status that ForceCompleteSaga or
\* UpdateSagaStatus wrote meanwhile stays as written.
C22_StatusNotOverwritten ==
    [][ \A d \in Drivers :
          (/\ drv[d].pc \in {"attempt", "compAttempt"} /\ drv'[d] # drv[d]
           /\ store.exists /\ store'.exists)
             => store'.status = store.status ]_vars

\* C23: a row whose publish failed is attempted again: a tick of the publisher
\* that finds no pending row but a failed one takes a failed row into its
\* batch.
C23_FailedRowRetried ==
    [][ (/\ ticks' = ticks - 1
         /\ \A i \in 1..Len(outbox) : outbox[i].status # "pending"
         /\ \E i \in 1..Len(outbox) : outbox[i].status = "failed")
           => /\ Len(pub'.batch) > 0
              /\ outbox[Head(pub'.batch)].status = "failed" ]_vars

\* C24: a pass of ExecuteStep's loop whose executor call succeeded (the step
\* event was composed and logged) but whose publish failed still ends the call
\* with the step stored Completed; the step is not dispatched again.
C24_PublishFailureKeepsProgress ==
    [][ \A d \in Drivers :
          (/\ drv[d].pc = "attempt" /\ drv'[d] # drv[d]
           /\ nextEventId' # nextEventId /\ published' = published)
             => /\ drv'[d].pc = "loop"
                /\ CurrentStoredStep(d, store').status = SagaStepCompleted ]_vars

\* C25: an outbox row is created pending with nothing else set; its status
\* changes only pending -> processing, processing -> processed and
\* processing -> failed; it is handed to the bus only while processing; it
\* gets processed_at when it becomes processed; on a failed publish its
\* retry_count grows by exactly one and it becomes failed with the error.
C25_OutboxStatusPath ==
    [][ \A i \in 1..Len(outbox') :
          IF i > Len(outbox)
          THEN /\ outbox'[i].status = "pending" /\ outbox'[i].retryCount = 0
               /\ ~outbox'[i].processedAt /\ ~outbox'[i].error
          ELSE LET o == outbox[i] n == outbox'[i] IN
               /\ n.status = o.status => n = o
               /\ n.status # o.status =>
                    << o.status, n.status >> \in {<< "pending", "processing" >>,
                                                  << "processing", "processed" >>,
                                                  << "processing", "failed" >>}
               /\ bus'[i].handed # bus[i].handed => o.status = "processing"
               /\ (n.status = "processing" /\ o.status # "processing") =>
                    /\ bus'[i] = bus[i]
                    /\ n = [o EXCEPT !.status = "processing"]
               /\ (n.status = "processed" /\ o.status # "processed") =>
                    /\ n.processedAt /\ n.retryCount = o.retryCount /\ n.error = o.error
                    /\ bus'[i].accepted = bus[i].accepted + 1
               /\ (n.status = "failed" /\ o.status # "failed") =>
                    /\ n.retryCount = o.retryCount + 1 /\ n.error
                    /\ n.processedAt = o.processedAt
                    /\ bus'[i].handed = bus[i].handed + 1
                    /\ bus'[i].accepted = bus[i].accepted ]_vars

\* One row went pending, processing, processed and carries processed_at;
\* another went pending, processing, failed with retry_count 1 and the error.
C25_Witness ==
    \E i, j \in 1..Len(outbox) :
        /\ outbox[i].status = "processed" /\ outbox[i].processedAt
        /\ outbox[i].retryCount = 0
        /\ outbox[j].status = "failed" /\ outbox[j].retryCount = 1 /\ outbox[j].error
        /\ ~outbox[j].processedAt

\* C26: the batch a tick fetched holds at most limit rows, and its rows are
\* in ascending created_at order (the order the rows were inserted in), which
\* is the order the publisher publishes them in.
C26_BatchAscending ==
    /\ \E limit \in BatchSizes : Len(pub.batch) <= limit
    /\ \A x, y \in 1..Len(pub.batch) : x < y => pub.batch[x] < pub.batch[y]

\* C27: the event the publisher hands to the bus for a row equals the envelope
\* that was handed to SaveEvent for that row: id, type, source, timestamp,
\* data and metadata.
C27_PublishedEqualsSaved ==
    \A i \in 1..Len(outbox) : bus[i].handed > 0 => bus[i].last = bus[i].saved

\* C28: LogEvent called with an event id that already has a row returns
\* success and leaves the table as it was.
C28_DuplicateLogEventSucceeds ==
    [][ (deliveries' = deliveries - 1 /\ lastCall'.op = "LogEvent" /\ lastCall'.present)
          => (lastCall'.result = "ok" /\ eventLog' = eventLog) ]_vars

\* C29: every event the coordinator has emitted has its row in the event log:
\* IsEventProcessed is true for every event id composed so far, however many
\* rows were logged before it.
C29_EmittedEventsLogged ==
    \A n \in 1..(nextEventId - 1) : IsEventProcessed(eventLog, n)

\* C30: ExecuteStep on a step that is stored Completed returns success (the
\* driver moves on to the next step) without a dispatch to the executor,
\* without a change of the stored saga or its steps, and without an event
\* composed, logged or published.
C30_CompletedStepIsNoop ==
    [][ \A d \in Drivers :
          (/\ drv[d].pc = "loop" /\ drv'[d] # drv[d]
           /\ drv[d].idx <= Len(Steps(d))
           /\ HasStoredStep(store, Steps(d)[drv[d].idx].id)
           /\ StoredStep(store, Steps(d)[drv[d].idx].id).status = SagaStepCompleted)
             => /\ drv'[d] = [drv[d] EXCEPT !.idx = @ + 1]
                /\ UNCHANGED << store, execCalls, eventLog, published, nextEventId,
                                outbox >> ]_vars

\* Both drivers are past validate-user, which is stored Completed and was
\* dispatched once: one of them found it Completed and moved on.
C30_Witness ==
    /\ \A d \in Drivers :
          /\ drv[d].startOk /\ drv[d].idx >= 2
          /\ drv[d].pc \in {"loop", "execSave", "attempt"}
    /\ execCalls["validate-user"] = 1
    /\ HasStoredStep(store, "validate-user")
    /\ StoredStep(store, "validate-user").status = SagaStepCompleted

\* C31: CompensateStep dispatches to the executor's Compensate only for a step
\* that is not stored Compensated and whose compensation is not none.  Called
\* for a Compensated step it returns success and changes nothing; called for a
\* step without compensation it stores the step as Compensated, leaves the
\* other steps alone and returns success, without a dispatch.
C31_CompensateOnlyWhenDue ==
    [][ /\ \A id \in StepIds :
             compCalls'[id] # compCalls[id] =>
                /\ HasStoredStep(store, id)
                /\ StoredStep(store, id).status # SagaStepCompensated
                /\ StoredStep(store, id).compensate # "none"
        /\ (runs' = runs - 1 /\ lastCall'.op = "CompensateStep"
            /\ lastCall'.was = SagaStepCompensated) =>
                /\ lastCall'.result = "ok"
                /\ UNCHANGED << store, compCalls, eventLog, published, nextEventId >>
        /\ (runs' = runs - 1 /\ lastCall'.op = "CompensateStep"
            /\ lastCall'.was \notin {SagaStepCompensated, "absent"}
            /\ lastCall'.kind = "none") =>
                /\ lastCall'.result = "ok"
                /\ StoredStep(store', lastCall'.step).status = SagaStepCompensated
                /\ \A id \in StepIds \ {lastCall'.step} :
                      StoredStep(store', id) = StoredStep(store, id)
                /\ UNCHANGED << compCalls, eventLog, published, nextEventId >> ]_vars

\* The three cases have happened on one saga: the last call was for a step
\* without compensation that was not Compensated and now is, with no dispatch;
\* a call for another step went to the executor.
C31_Witness ==
    /\ lastCall.op = "CompensateStep" /\ lastCall.step = "collect-data"
    /\ lastCall.was = SagaStepCompleted /\ lastCall.result = "ok"
    /\ StoredStep(store, "collect-data").status = SagaStepCompensated
    /\ compCalls["collect-data"] = 0
    /\ compCalls["store-file"] > 0
    /\ StoredStep(store, "store-file").status = SagaStepCompensated

\* C32: when the last of the max_retries+1 compensation attempts of a step
\* fails, the stored saga and the step's status stay as they were (the step is
\* not Compensated) and the driver goes on: an unwind that has returned has
\* called CompensateStep for every compensating step below the failed one.
C32_FailedCompensationSkipped ==
    [][ /\ \A d \in Drivers :
             (/\ drv[d].pc = "compAttempt" /\ drv[d].attempt = maxRetries
              /\ cfaults' = cfaults - 1)
                => /\ store' = store
                   /\ drv'[d].pc = "comp"
                   /\ drv'[d].cidx = drv[d].cidx - 1
        /\ \A d \in Drivers :
             (drv'[d].pc = "idle" /\ drv'[d].result = "err_compensated") =>
                \A i \in 1..(drv'[d].failedAt - 1) :
                    Steps(d)[i].compensate # "none" =>
                        \E k \in 1..Len(drv'[d].compLog) : drv'[d].compLog[k] = i ]_vars

\* An unwind has returned in which every attempt to compensate store-file
\* failed: the step is still stored Completed, and generate-report below it
\* was compensated all the same.
C32_Witness ==
    \E d \in Drivers :
        /\ drv[d].pc = "idle" /\ drv[d].result = "err_compensated"
        /\ compCalls["store-file"] = maxRetries + 1
        /\ StoredStep(store, "store-file").status = SagaStepCompleted
        /\ compCalls["generate-report"] = 1
        /\ StoredStep(store, "generate-report").status = SagaStepCompensated

\* C33: a saga.completed event is published only by a step that leaves the
\* saga stored Completed, a saga.failed event only by one that leaves it
\* Failed, and the event published when the status becomes Compensated is
\* saga.compensated.
C33_StatusEventTypes ==
    [][ /\ published'[SagaCompleted] # published[SagaCompleted] =>
             (store'.exists /\ store'.status = SagaStatusCompleted)
        /\ published'[SagaFailed] # published[SagaFailed] =>
             (store'.exists /\ store'.status = SagaStatusFailed)
        /\ (/\ store.exists /\ store'.exists /\ store.status # SagaStatusCompensated
            /\ store'.status = SagaStatusCompensated /\ published' # published) =>
             published'[SagaCompensated] # published[SagaCompensated] ]_vars

\* C34: an Execute that failed at a step returns to its caller the error that
\* ExecuteStep returned for that step, whatever happened during the unwind.
C34_ReturnsStepError ==
    \A d \in Drivers :
        (/\ drv[d].pc = "idle" /\ drv[d].failedAt > 0
         /\ drv[d].stepErr # "none" /\ drv[d].result # "crashed")
           => drv[d].result = drv[d].stepErr

\* C35: a retry of a saga that is not Failed and a cancel of a Completed saga
\* are rejected, and the rejected request changes neither the stored saga nor
\* the number of executions and compensations dispatched.
C35_RejectedRequestsChangeNothing ==
    [][ /\ \A d \in Drivers :
              (/\ runs' # runs /\ drv'[d] # drv[d]
               /\ drv'[d].entry = "RetryFailedSaga"
               /\ store.exists /\ store.status # SagaStatusFailed)
                 => /\ drv'[d].pc = "idle" /\ drv'[d].result = "err_not_failed"
                    /\ store' = store
                    /\ execCalls' = execCalls /\ compCalls' = compCalls
        /\ (/\ admins' # admins /\ lastCall'.op = "CancelSaga"
            /\ store.exists /\ store.status = SagaStatusCompleted)
              => /\ lastCall'.result = "rejected"
                 /\ store' = store
                 /\ execCalls' = execCalls /\ compCalls' = compCalls ]_vars

C35_Witness ==
    /\ store.exists /\ store.status = SagaStatusCompleted
    /\ drv["d1"].entry = "RetryFailedSaga" /\ drv["d1"].result = "err_not_failed"
    /\ lastCall = [op |-> "CancelSaga", result |-> "rejected"]

\* C36: every report a step of a saga reads, writes or announces is the report
\* that saga created; no step takes the newest report of the table instead.
C36_StepsUseOwnReport ==
    \A a \in reports.accessed : a.report = reports.created[a.saga]

\* C37: once the context of a driver is cancelled during the wait between two
\* attempts, no further attempt is dispatched to the step executor, neither an
\* execution nor a compensation.
C37_NoAttemptAfterCancel ==
    [][ (\E d \in Drivers : drv[d].cancelled /\ drv[d].pc # "idle")
           => (execCalls' = execCalls /\ compCalls' = compCalls) ]_vars

\* C38: while a driver is in the forward loop of Execute, a stored step is
\* Executing, Completed or Failed only if every stored step before it is
\* Completed; in particular the step the driver works on has only durably
\* Completed steps before it.
C38_StepsInPositionOrder ==
    \A d \in Drivers :
        (drv[d].pc \in {"loop", "attempt", "markFailed"} /\ drv[d].startOk /\ store.exists)
           => \A i \in 1..Len(store.steps) :
                 store.steps[i].status \in
                     {SagaStepExecuting, SagaStepCompleted, SagaStepFailed}
                   => \A j \in 1..(i - 1) : store.steps[j].status = SagaStepCompleted

\* The ids of the stored steps of a row, in stored order.
StoredStepIds(row) ==
    [i \in 1..Len(GetSagaState(row).steps) |-> GetSagaState(row).steps[i].id]

\* C39: once a saga is stored, no operation changes the sequence of its step
\* ids: steps are neither removed, added nor reordered.
C39_StepSequenceFixed ==
    [][ (store.exists /\ store'.exists) => StoredStepIds(store') = StoredStepIds(store) ]_vars

\* C40: a StartSaga that returns an error does not leave the saga stored as
\* Executing, the status for which a later StartSaga of the same id is turned
\* away as already running.
C40_FailedStartNotExecuting ==
    [][ (/\ admins' # admins /\ lastCall'.op = "StartSaga"
         /\ lastCall'.result = "publish_error")
           => ~(store'.exists /\ store'.status = SagaStatusExecuting) ]_vars

====
